---- MODULE Spec2Model ----
(***************************************************************************)
(* The scheduling core of callpilot-control: the availability checker, the *)
(* free-slot enumerator (src/scheduling.py) and the handlers that write    *)
(* the booking ledger (src/agent.py tools, src/main.py endpoints).         *)
(*                                                                         *)
(* Time is counted in minutes from Monday 00:00 of week 0 in the business  *)
(* timezone.  A parsed datetime is a record [t, tz]: t is its wall clock,  *)
(* tz says how it was written ("naive", "utc") or that it has been         *)
(* normalised to the business timezone ("local").  The bookings column is  *)
(* DateTime(timezone=True) (src/models.py:33), so the ledger holds         *)
(* instants, kept here as business-timezone minutes; daylight-saving       *)
(* shifts are outside the model.                                           *)
(***************************************************************************)
EXTENDS Integers, Sequences, FiniteSets, TLC

VARIABLES
    service,    \* SchedulingService fields: business_start, business_end, slot_duration
    bookings,   \* the bookings table, in id order: the columns [appointment_datetime, status]
    users,      \* the users table, in id order: the user names
    demo_usage, \* the demo_usage table, in id order: [session_id, user_id, feature_name, tries_used]
    pc,         \* per caller: where its handler stands between its check and its write
    req,        \* per caller: what the handler holds across that point
    resp        \* the response of the handler that returned last

vars == <<service, bookings, users, demo_usage, pc, req, resp>>

---------------------------------------------------------------------------
(* Bounds of the model *)

\* At most this many Booking rows are created.
MaxBookings == 2

---------------------------------------------------------------------------
(* Calendar arithmetic of datetime *)

MinutesPerDay == 1440

\* America/New_York standard time relative to UTC, in minutes.
TzOffsetMinutes == -300

At(d, h, m) == d * MinutesPerDay + h * 60 + m

naive(t) == [t |-> t, tz |-> "naive"]
utc(t) == [t |-> t, tz |-> "utc"]
local(t) == [t |-> t, tz |-> "local"]

\* The absent optional argument.
None == [t |-> 0, tz |-> "none"]

\* self.timezone.localize(dt) for a naive dt, dt.astimezone(self.timezone) otherwise.
to_timezone(dt) ==
    IF dt.tz = "naive" THEN local(dt.t)
    ELSE IF dt.tz = "utc" THEN local(dt.t + TzOffsetMinutes)
    ELSE dt

\* dt + timedelta(minutes = n): the wall clock moves, the zone stays.
plus(dt, n) == [t |-> dt.t + n, tz |-> dt.tz]

\* dt.date(), dt.time() and dt.weekday() read the wall clock of dt as it is written.
date(dt) == dt.t \div MinutesPerDay
time(dt) == dt.t % MinutesPerDay
weekday(dt) == date(dt) % 7

\* An ISO-8601 string: [t, z] with z = "" (no offset), "Z", or "bad" (unparsable).
\* datetime.fromisoformat(s.replace("Z", "+00:00"))
fromisoformat_ok(s) == s.z # "bad"
fromisoformat(s) == IF s.z = "Z" THEN utc(s.t) ELSE naive(s.t)

---------------------------------------------------------------------------
(* Settings and SchedulingService.__init__ *)

\* The defaults of Settings; "HH:MM" is kept as <<HH, MM>>.
DefaultSettings ==
    [business_hours_start |-> <<9, 0>>,
     business_hours_end |-> <<17, 0>>,
     slot_duration_minutes |-> 30]

\* The same hours with a slot length that does not divide the business day.
UnevenSettings ==
    [business_hours_start |-> <<9, 0>>,
     business_hours_end |-> <<17, 0>>,
     slot_duration_minutes |-> 45]

parse_time(time_str) == time_str[1] * 60 + time_str[2]

SchedulingService(settings) ==
    [business_start |-> parse_time(settings.business_hours_start),
     business_end |-> parse_time(settings.business_hours_end),
     slot_duration |-> settings.slot_duration_minutes]

---------------------------------------------------------------------------
(* SchedulingService: the read-only operations *)

is_business_hours(dt) ==
    LET d == to_timezone(dt)
    IN  service.business_start <= time(d) /\ time(d) < service.business_end

\* The weekday test letting Saturday through.
is_weekday_through_saturday(dt) == weekday(dt) < 6

is_weekday(dt) == weekday(dt) < 5

\* The conflict query without its status filter.
conflicts_any_status(db, start_datetime, end_datetime) ==
    {i \in DOMAIN db :
        /\ db[i].appointment_datetime < end_datetime.t
        /\ db[i].appointment_datetime + service.slot_duration > start_datetime.t}

\* The conflict query with both comparisons made inclusive.
conflicts_inclusive(db, start_datetime, end_datetime) ==
    {i \in DOMAIN db :
        /\ db[i].status = "confirmed"
        /\ db[i].appointment_datetime <= end_datetime.t
        /\ db[i].appointment_datetime + service.slot_duration >= start_datetime.t}

\* The rows the conflict query counts.
conflicts(db, start_datetime, end_datetime) ==
    {i \in DOMAIN db :
        /\ db[i].status = "confirmed"
        /\ db[i].appointment_datetime < end_datetime.t
        /\ db[i].appointment_datetime + service.slot_duration > start_datetime.t}

\* The availability check finding a conflict only with a booking at the same start.
check_availability_same_start(db, start_datetime, end_datetime) ==
    LET start1 == to_timezone(start_datetime)
    IN  IF ~is_business_hours(start1) \/ ~is_weekday(start1)
        THEN FALSE
        ELSE ~\E i \in DOMAIN db :
                 /\ db[i].status = "confirmed"
                 /\ db[i].appointment_datetime = start1.t

\* The availability check without its conflict query.
check_availability_hours_only(db, start_datetime, end_datetime) ==
    LET start1 == to_timezone(start_datetime)
    IN  is_business_hours(start1) /\ is_weekday(start1)

check_availability(db, start_datetime, end_datetime) ==
    LET end0 == IF end_datetime = None
                THEN plus(start_datetime, service.slot_duration)
                ELSE end_datetime
        start1 == to_timezone(start_datetime)
        end1 == to_timezone(end0)
    IN  IF ~is_business_hours(start1) \/ ~is_weekday(start1)
        THEN FALSE
        ELSE Cardinality(conflicts(db, start1, end1)) = 0

\* The day's bookings as they were when the ledger was still empty.
existing_bookings_at_startup(db, day_start, day_end) == {}

\* The confirmed bookings of the day that get_free_slots fetches.
existing_bookings(db, day_start, day_end) ==
    {i \in DOMAIN db :
        /\ db[i].status = "confirmed"
        /\ db[i].appointment_datetime >= day_start
        /\ db[i].appointment_datetime < day_end}

\* The loop dropping a slot only when a booking starts exactly at it.
RECURSIVE slot_loop_same_start(_, _, _, _)
slot_loop_same_start(db, existing, current, day_end) ==
    IF current < day_end
    THEN (IF \E i \in existing : db[i].appointment_datetime = current
          THEN <<>> ELSE <<local(current)>>)
         \o slot_loop_same_start(db, existing, current + service.slot_duration, day_end)
    ELSE <<>>

\* The while loop of get_free_slots, from `current` on.
RECURSIVE slot_loop(_, _, _, _)
slot_loop(db, existing, current, day_end) ==
    IF current < day_end
    THEN LET slot_end == current + service.slot_duration
             has_conflict ==
                 \E i \in existing :
                     /\ db[i].appointment_datetime < slot_end
                     /\ db[i].appointment_datetime + service.slot_duration > current
         IN  (IF has_conflict THEN <<>> ELSE <<local(current)>>)
             \o slot_loop(db, existing, current + service.slot_duration, day_end)
    ELSE <<>>

\* get_free_slots running its loop up to and including business_end.
get_free_slots_inclusive_end(db, day) ==
    LET day_start ==
            IF day.tz = "naive"
            THEN date(day) * MinutesPerDay + service.business_start
            ELSE date(to_timezone(day)) * MinutesPerDay + service.business_start
        day_end ==
            (day_start \div MinutesPerDay) * MinutesPerDay + service.business_end
    IN  IF ~is_weekday(local(day_start))
        THEN <<>>
        ELSE slot_loop(db, existing_bookings(db, day_start, day_end), day_start, day_end + 1)

get_free_slots(db, day) ==
    LET day_start ==
            IF day.tz = "naive"
            THEN date(day) * MinutesPerDay + service.business_start
            ELSE date(to_timezone(day)) * MinutesPerDay + service.business_start
        day_end ==
            (day_start \div MinutesPerDay) * MinutesPerDay + service.business_end
    IN  IF ~is_weekday(local(day_start))
        THEN <<>>
        ELSE slot_loop(db, existing_bookings(db, day_start, day_end), day_start, day_end)

\* seq[:n]
slice_to(seq, n) == SubSeq(seq, 1, IF Len(seq) < n THEN Len(seq) ELSE n)

\* The loop of suggest_alternative_slots over range(1, days_ahead + 1) and the
\* directions [-1, 1], from (day_offset, direction) on.  datetime.combine takes
\* requested_datetime.time(), which carries no tzinfo, so check_datetime is
\* always naive and is localized.  `returned` says the loop left through its
\* return statement.
RECURSIVE surrounding_days(_, _, _, _, _, _)
surrounding_days(db, requested_datetime, alternatives, day_offset, direction, days_ahead) ==
    IF day_offset > days_ahead
    THEN [alternatives |-> alternatives, returned |-> FALSE]
    ELSE LET check_date == date(requested_datetime) + direction * day_offset
             check_datetime ==
                 to_timezone(naive(check_date * MinutesPerDay + time(requested_datetime)))
             available == check_availability(db, check_datetime, None)
             appended == IF available THEN Append(alternatives, check_datetime)
                         ELSE alternatives
             next_offset == IF direction = -1 THEN day_offset ELSE day_offset + 1
         IN  IF available /\ Len(appended) >= 5
             THEN [alternatives |-> appended, returned |-> TRUE]
             ELSE surrounding_days(db, requested_datetime, appended,
                                   next_offset, -direction, days_ahead)

\* suggest_alternative_slots extending with the free slots and not cutting at 5.
suggest_alternative_slots_untruncated(db, requested_datetime, days_ahead) ==
    LET same_day == IF check_availability(db, requested_datetime, None)
                    THEN <<requested_datetime>> ELSE <<>>
        looped == surrounding_days(db, requested_datetime, same_day, 1, -1, days_ahead)
    IN  IF looped.returned THEN looped.alternatives
        ELSE IF Len(looped.alternatives) < 3
        THEN looped.alternatives \o get_free_slots(db, requested_datetime)
        ELSE looped.alternatives

\* suggest_alternative_slots starting from the surrounding days, without the
\* same-day check.
suggest_alternative_slots_skips_same_day(db, requested_datetime, days_ahead) ==
    LET looped == surrounding_days(db, requested_datetime, <<>>, 1, -1, days_ahead)
    IN  IF looped.returned THEN looped.alternatives
        ELSE IF Len(looped.alternatives) < 3
        THEN slice_to(looped.alternatives
                        \o slice_to(get_free_slots(db, requested_datetime), 5), 5)
        ELSE slice_to(looped.alternatives, 5)

\* suggest_alternative_slots padding whenever fewer than 5 were collected.
suggest_alternative_slots_pads_below_five(db, requested_datetime, days_ahead) ==
    LET same_day == IF check_availability(db, requested_datetime, None)
                    THEN <<requested_datetime>> ELSE <<>>
        looped == surrounding_days(db, requested_datetime, same_day, 1, -1, days_ahead)
    IN  IF looped.returned THEN looped.alternatives
        ELSE IF Len(looped.alternatives) < 5
        THEN slice_to(looped.alternatives
                        \o slice_to(get_free_slots(db, requested_datetime), 5), 5)
        ELSE slice_to(looped.alternatives, 5)

suggest_alternative_slots(db, requested_datetime, days_ahead) ==
    LET same_day == IF check_availability(db, requested_datetime, None)
                    THEN <<requested_datetime>> ELSE <<>>
        looped == surrounding_days(db, requested_datetime, same_day, 1, -1, days_ahead)
    IN  IF looped.returned THEN looped.alternatives
        ELSE IF Len(looped.alternatives) < 3
        THEN slice_to(looped.alternatives
                        \o slice_to(get_free_slots(db, requested_datetime), 5), 5)
        ELSE slice_to(looped.alternatives, 5)


---------------------------------------------------------------------------
(* src/smart_scheduling.py: SmartSchedulingService *)

\* slot.hour
hour(dt) == time(dt) \div 60

\* slot.isoformat(): the wall clock followed by the offset of its zone.
isoformat(dt) ==
    [t |-> dt.t,
     z |-> IF dt.tz = "local" THEN "-05:00" ELSE IF dt.tz = "utc" THEN "+00:00" ELSE ""]

\* A rate of the historical summary is the quotient n / d of two row counts,
\* kept as <<n, d>>, and is 0 when there are no rows.  rate_above(r, p, q) is
\* r > p / q.
rate_above(rate, p, q) == rate[2] > 0 /\ rate[1] * q > p * rate[2]

\* The conditions of the six factors of _score_slot.  The profile is what the
\* ClientProfile query for user_id returned; user_id 0 stands for None.
factors(slot, historical_data, user_id, profile) ==
    [popular |-> hour(slot) \in historical_data.high_demand_hours,
     morning |-> rate_above(historical_data.cancellation_rate, 3, 10) /\ hour(slot) < 12,
     midday |-> /\ rate_above(historical_data.no_show_rate, 2, 10)
                /\ 10 <= hour(slot) /\ hour(slot) <= 14,
     preferred |-> /\ user_id # 0
                   /\ profile.found
                   /\ profile.preferred_times.given
                   /\ hour(slot) \in profile.preferred_times.hours,
     weekday_slot |-> weekday(slot) < 5,
     recovering |-> rate_above(historical_data.recovery_success_rate, 7, 10)]

\* The additions with the morning bonus taken as 10.
added_up_small_morning(f) ==
    50 + (IF f.popular THEN 20 ELSE 10)
       + (IF f.morning THEN 10 ELSE 0)
       + (IF f.midday THEN 15 ELSE 0)
       + (IF f.preferred THEN 25 ELSE 0)
       + (IF f.weekday_slot THEN 10 ELSE 0)
       + (IF f.recovering THEN 10 ELSE 0)

\* The score after the six factors, before it is normalised.
added_up(f) ==
    50 + (IF f.popular THEN 20 ELSE 10)
       + (IF f.morning THEN 15 ELSE 0)
       + (IF f.midday THEN 15 ELSE 0)
       + (IF f.preferred THEN 25 ELSE 0)
       + (IF f.weekday_slot THEN 10 ELSE 0)
       + (IF f.recovering THEN 10 ELSE 0)

\* The reasoning, kept as its parts, which the code joins with "; ".
reasoning_parts_of(f) ==
    (IF f.popular THEN <<"Popular time slot">> ELSE <<"Available time slot">>)
    \o (IF f.morning THEN <<"Morning slot (lower cancellation risk)">> ELSE <<>>)
    \o (IF f.midday THEN <<"Mid-day slot (better attendance)">> ELSE <<>>)
    \o (IF f.preferred THEN <<"Matches user preference">> ELSE <<>>)
    \o (IF f.weekday_slot THEN <<"Weekday appointment">> ELSE <<>>)
    \o (IF f.recovering THEN <<"High recovery success rate for this time">> ELSE <<>>)

\* _score_slot without its final min(score, 100).
score_slot_unclamped(slot, historical_data, user_id, profile) ==
    LET f == factors(slot, historical_data, user_id, profile)
    IN  [score |-> added_up(f), reasoning_parts |-> reasoning_parts_of(f)]

score_slot(slot, historical_data, user_id, profile) ==
    LET f == factors(slot, historical_data, user_id, profile)
        score == added_up(f)
    IN  [score |-> IF score < 100 THEN score ELSE 100,
         reasoning_parts |-> reasoning_parts_of(f)]

\* The while loop of suggest_optimal_slots over the dates current_date ..
\* end_date: the free slots of each day, concatenated.
RECURSIVE all_slots_from(_, _, _)
all_slots_from(db, current_date, end_date) ==
    IF current_date <= end_date
    THEN get_free_slots(db, naive(current_date * MinutesPerDay))
         \o all_slots_from(db, current_date + 1, end_date)
    ELSE <<>>

\* The scored slots whose score is s, then those of each lower score down to
\* lowest, each group in the order it has in scored_slots.
RECURSIVE by_score_down(_, _, _)
by_score_down(scored_slots, s, lowest) ==
    IF s < lowest THEN <<>>
    ELSE SelectSeq(scored_slots, LAMBDA x : x.score = s)
         \o by_score_down(scored_slots, s - 1, lowest)

\* The scored slots from the lowest score up, each group of equal score in its
\* original order.
RECURSIVE by_score_up(_, _, _)
by_score_up(scored_slots, s, highest) ==
    IF s > highest THEN <<>>
    ELSE SelectSeq(scored_slots, LAMBDA x : x.score = s)
         \o by_score_up(scored_slots, s + 1, highest)

\* The sort done ascending and then reversed, which turns every group of equal
\* score around.
sort_by_score_reversed(scored_slots) ==
    IF scored_slots = <<>> THEN <<>>
    ELSE LET scores == {scored_slots[i].score : i \in DOMAIN scored_slots}
             highest == CHOOSE a \in scores : \A b \in scores : b <= a
             lowest == CHOOSE a \in scores : \A b \in scores : a <= b
             ascending == by_score_up(scored_slots, lowest, highest)
         IN  [i \in DOMAIN ascending |-> ascending[Len(ascending) + 1 - i]]

\* scored_slots.sort(key = score, reverse = True): list.sort is stable, and with
\* reverse = True elements of equal score still keep their original order.
sort_by_score(scored_slots) ==
    IF scored_slots = <<>> THEN <<>>
    ELSE LET scores == {scored_slots[i].score : i \in DOMAIN scored_slots}
             highest == CHOOSE a \in scores : \A b \in scores : b <= a
             lowest == CHOOSE a \in scores : \A b \in scores : a <= b
         IN  by_score_down(scored_slots, highest, lowest)

\* The ranking started from today's date whatever preferred_date says.
suggest_optimal_slots_from_today(db, user_id, preferred_date, days_ahead, now, historical_data, profile) ==
    LET start_date == date(now)
        end_date == start_date + days_ahead
        all_slots == all_slots_from(db, start_date, end_date)
        scored_slots ==
            [i \in DOMAIN all_slots |->
                LET scored == score_slot(all_slots[i], historical_data, user_id, profile)
                IN  [datetime |-> isoformat(all_slots[i]),
                     score |-> scored.score,
                     confidence |-> IF scored.score < 100 THEN scored.score ELSE 100,
                     reasoning_parts |-> scored.reasoning_parts]]
    IN  IF all_slots = <<>>
        THEN [suggestions |-> <<>>, total_available |-> 0]
        ELSE [suggestions |-> slice_to(sort_by_score(scored_slots), 5),
              total_available |-> Len(all_slots)]

\* suggest_optimal_slots: preferred_date None lets the range start at `now`;
\* historical_data is what _analyze_historical_patterns returned and profile
\* what the ClientProfile query returned.  The copy of the suggestions kept in
\* the user's draft call logs is a write to call_logs, a table outside this
\* model.
suggest_optimal_slots(db, user_id, preferred_date, days_ahead, now, historical_data, profile) ==
    LET start_date == IF preferred_date # None THEN date(preferred_date) ELSE date(now)
        end_date == start_date + days_ahead
        all_slots == all_slots_from(db, start_date, end_date)
        scored_slots ==
            [i \in DOMAIN all_slots |->
                LET scored == score_slot(all_slots[i], historical_data, user_id, profile)
                IN  [datetime |-> isoformat(all_slots[i]),
                     score |-> scored.score,
                     confidence |-> IF scored.score < 100 THEN scored.score ELSE 100,
                     reasoning_parts |-> scored.reasoning_parts]]
    IN  IF all_slots = <<>>
        THEN [suggestions |-> <<>>, total_available |-> 0]
        ELSE [suggestions |-> slice_to(sort_by_score(scored_slots), 5),
              total_available |-> Len(all_slots)]

---------------------------------------------------------------------------
(* Requests *)

\* The two request handlers that may run at the same time: the conversation
\* agent executing a tool, and the HTTP API executing an endpoint.
Callers == {"agent", "api"}

\* The user the conversation agent books for.
Names == {"alice"}

\* The users table after setup: create_sample_data adds the sample user, id 1.
SampleUsers == <<"Test User">>

\* user_id values an API request may carry: the sample user's and one that no row has.
UserIds == {1, 3}

\* booking_id values a request may carry.
BookingIds == 1 .. MaxBookings

\* Datetime strings requests carry: Wednesday and Saturday of week 1.
TimeStrings ==
    {[t |-> At(9, 8, 30), z |-> ""],
     [t |-> At(9, 10, 0), z |-> ""],
     [t |-> At(9, 10, 15), z |-> ""],
     [t |-> At(9, 10, 30), z |-> ""],
     [t |-> At(9, 15, 0), z |-> "Z"],
     [t |-> At(12, 10, 0), z |-> ""],
     [t |-> 0, z |-> "bad"]}

\* A handler past its check holds the parsed datetime; it is kept as the
\* instant it denotes, which is all the write uses.
NoReq == [op |-> "none"]

\* What a handler returns: the tool or endpoint, the HTTP status (0 for a tool
\* result, which has none) and the message; a write also returns the
\* booking_id it wrote, a read-only call its value.
Response(op, code, detail) ==
    [op |-> op, code |-> code, detail |-> detail, booking_id |-> 0, value |-> <<>>]
Changed(op, code, booking_id) ==
    [op |-> op, code |-> code, detail |-> "success", booking_id |-> booking_id,
     value |-> <<>>]
Result(op, code, value) ==
    [op |-> op, code |-> code, detail |-> "", booking_id |-> 0, value |-> value]

\* Rows already written plus rows a handler past its check is about to write.
pending_rows ==
    Len(bookings)
    + Cardinality({p \in Callers : pc[p] \in {"book_appointment", "create_booking"}})

\* Booking(user_id, appointment_datetime, status = "confirmed"); db.add; db.commit.
\* The user_id column is not read by the scheduling core and is not kept.
add_booking(db, user_id, appointment_dt) ==
    Append(db, [appointment_datetime |-> to_timezone(appointment_dt).t,
                status |-> "confirmed"])

\* A reschedule that assigns the new time and leaves the status as it was.
move_booking_keeps_status(db, booking_id, new_dt) ==
    [db EXCEPT ![booking_id] =
        [@ EXCEPT !.appointment_datetime = to_timezone(new_dt).t]]

\* booking.appointment_datetime = new_dt; booking.status = "rescheduled"; db.commit
move_booking(db, booking_id, new_dt) ==
    [db EXCEPT ![booking_id] =
        [@ EXCEPT !.appointment_datetime = to_timezone(new_dt).t,
                  !.status = "rescheduled"]]

\* db.query(User).filter(User.name == name).first()
user_by_name(name) ==
    IF \E i \in DOMAIN users : users[i] = name
    THEN CHOOSE i \in DOMAIN users :
            users[i] = name /\ \A j \in DOMAIN users : users[j] = name => i <= j
    ELSE 0

Return(p, r) ==
    /\ pc' = [pc EXCEPT ![p] = "idle"]
    /\ req' = [req EXCEPT ![p] = NoReq]
    /\ resp' = r

---------------------------------------------------------------------------
(* src/agent.py: ConversationAgent._execute_tool *)

\* The check_availability tool parses outside any try block: a bad string raises.
ToolCheckAvailability(start_str) ==
    /\ pc["agent"] = "idle"
    /\ IF ~fromisoformat_ok(start_str)
       THEN Return("agent", Response("check_availability", 0, "raised"))
       ELSE Return("agent", Result("check_availability", 0,
                check_availability(bookings, fromisoformat(start_str), None)))
    /\ UNCHANGED <<service, demo_usage, bookings, users>>

ToolGetFreeSlots(day_str) ==
    /\ pc["agent"] = "idle"
    /\ IF ~fromisoformat_ok(day_str)
       THEN Return("agent", Response("get_free_slots", 0, "error"))
       ELSE Return("agent", Result("get_free_slots", 0,
                get_free_slots(bookings, fromisoformat(day_str))))
    /\ UNCHANGED <<service, demo_usage, bookings, users>>

\* book_appointment up to its availability check.
BookAppointmentCheck(name, datetime_str) ==
    /\ pc["agent"] = "idle"
    /\ pending_rows < MaxBookings
    /\ IF ~fromisoformat_ok(datetime_str)
       THEN Return("agent", Response("book_appointment", 0, "error"))
       ELSE IF ~check_availability(bookings, fromisoformat(datetime_str), None)
       THEN Return("agent", Response("book_appointment", 0, "Slot not available"))
       ELSE /\ pc' = [pc EXCEPT !["agent"] = "book_appointment"]
            /\ req' = [req EXCEPT !["agent"] =
                    [op |-> "book_appointment", name |-> name,
                     appointment_dt |-> to_timezone(fromisoformat(datetime_str))]]
            /\ UNCHANGED resp
    /\ UNCHANGED <<service, demo_usage, bookings, users>>

\* book_appointment checking again before it commits.
BookAppointmentWrite_Recheck ==
    /\ pc["agent"] = "book_appointment"
    /\ IF check_availability(bookings, req["agent"].appointment_dt, None)
       THEN LET name == req["agent"].name
                found == user_by_name(name)
                user_id == IF found = 0 THEN Len(users) + 1 ELSE found
            IN  /\ users' = IF found = 0 THEN Append(users, name) ELSE users
                /\ bookings' = add_booking(bookings, user_id, req["agent"].appointment_dt)
                /\ Return("agent", Changed("book_appointment", 0, Len(bookings) + 1))
       ELSE /\ Return("agent", Response("book_appointment", 0, "Slot not available"))
            /\ UNCHANGED <<bookings, users>>
    /\ UNCHANGED <<service, demo_usage>>

\* book_appointment from the user lookup to the commit.
BookAppointmentWrite ==
    /\ pc["agent"] = "book_appointment"
    /\ LET name == req["agent"].name
           found == user_by_name(name)
           user_id == IF found = 0 THEN Len(users) + 1 ELSE found
       IN  /\ users' = IF found = 0 THEN Append(users, name) ELSE users
           /\ bookings' = add_booking(bookings, user_id, req["agent"].appointment_dt)
    /\ Return("agent", Changed("book_appointment", 0, Len(bookings) + 1))
    /\ UNCHANGED <<service, demo_usage>>

\* reschedule_appointment up to its availability check.
RescheduleAppointmentCheck(booking_id, new_time) ==
    /\ pc["agent"] = "idle"
    /\ IF booking_id \notin DOMAIN bookings
       THEN Return("agent", Response("reschedule_appointment", 0, "Booking not found"))
       ELSE IF ~fromisoformat_ok(new_time)
       THEN Return("agent", Response("reschedule_appointment", 0, "error"))
       ELSE IF ~check_availability(bookings, fromisoformat(new_time), None)
       THEN Return("agent", Response("reschedule_appointment", 0, "New slot not available"))
       ELSE /\ pc' = [pc EXCEPT !["agent"] = "reschedule_appointment"]
            /\ req' = [req EXCEPT !["agent"] =
                    [op |-> "reschedule_appointment", booking_id |-> booking_id,
                     new_dt |-> to_timezone(fromisoformat(new_time))]]
            /\ UNCHANGED resp
    /\ UNCHANGED <<service, demo_usage, bookings, users>>

\* reschedule_appointment: the two assignments and the commit.
RescheduleAppointmentWrite ==
    /\ pc["agent"] = "reschedule_appointment"
    /\ bookings' = move_booking(bookings, req["agent"].booking_id, req["agent"].new_dt)
    /\ Return("agent", Changed("reschedule_appointment", 0, req["agent"].booking_id))
    /\ UNCHANGED <<service, demo_usage, users>>

\* cancel_appointment answering success without the status having been written.
CancelAppointment_NoWrite(booking_id) ==
    /\ pc["agent"] = "idle"
    /\ IF booking_id \notin DOMAIN bookings
       THEN Return("agent", Response("cancel_appointment", 0, "Booking not found"))
       ELSE Return("agent", Changed("cancel_appointment", 0, booking_id))
    /\ UNCHANGED <<service, demo_usage, bookings, users>>

CancelAppointment(booking_id) ==
    /\ pc["agent"] = "idle"
    /\ IF booking_id \notin DOMAIN bookings
       THEN /\ Return("agent", Response("cancel_appointment", 0, "Booking not found"))
            /\ UNCHANGED bookings
       ELSE /\ bookings' = [bookings EXCEPT ![booking_id].status = "cancelled"]
            /\ Return("agent", Changed("cancel_appointment", 0, booking_id))
    /\ UNCHANGED <<service, demo_usage, users>>

---------------------------------------------------------------------------
(* src/main.py: the booking endpoints *)

\* create_booking up to the construction of the Booking: the availability
\* check, then the user lookup.  The HTTPException raised for an unavailable
\* slot or an unknown user is caught by the handler's own `except Exception`,
\* which turns it into a 500.
CreateBookingCheck(user_id, appointment_datetime) ==
    /\ pc["api"] = "idle"
    /\ pending_rows < MaxBookings
    /\ IF ~fromisoformat_ok(appointment_datetime)
       THEN Return("api", Response("create_booking", 400, "Invalid datetime format"))
       ELSE IF ~check_availability(bookings, fromisoformat(appointment_datetime), None)
       THEN Return("api", Response("create_booking", 500, "Time slot not available"))
       ELSE IF user_id \notin DOMAIN users
       THEN Return("api", Response("create_booking", 500, "User not found"))
       ELSE /\ pc' = [pc EXCEPT !["api"] = "create_booking"]
            /\ req' = [req EXCEPT !["api"] =
                    [op |-> "create_booking", user_id |-> user_id,
                     appointment_dt |-> to_timezone(fromisoformat(appointment_datetime))]]
            /\ UNCHANGED resp
    /\ UNCHANGED <<service, demo_usage, bookings, users>>

\* create_booking: db.add, db.commit, db.refresh.
CreateBookingWrite ==
    /\ pc["api"] = "create_booking"
    /\ bookings' = add_booking(bookings, req["api"].user_id, req["api"].appointment_dt)
    /\ Return("api", Changed("create_booking", 200, Len(bookings) + 1))
    /\ UNCHANGED <<service, demo_usage, users>>

\* reschedule_booking going on to its write whatever the availability check said.
RescheduleBookingCheck_Proceeds(booking_id, new_datetime) ==
    /\ pc["api"] = "idle"
    /\ IF booking_id \notin DOMAIN bookings
       THEN Return("api", Response("reschedule_booking", 404, "Booking not found"))
       ELSE IF ~fromisoformat_ok(new_datetime)
       THEN Return("api", Response("reschedule_booking", 400, "Invalid datetime format"))
       ELSE /\ pc' = [pc EXCEPT !["api"] = "reschedule_booking"]
            /\ req' = [req EXCEPT !["api"] =
                    [op |-> "reschedule_booking", booking_id |-> booking_id,
                     new_dt |-> to_timezone(fromisoformat(new_datetime))]]
            /\ UNCHANGED resp
    /\ UNCHANGED <<service, demo_usage, bookings, users>>

\* reschedule_booking up to its availability check.
RescheduleBookingCheck(booking_id, new_datetime) ==
    /\ pc["api"] = "idle"
    /\ IF booking_id \notin DOMAIN bookings
       THEN Return("api", Response("reschedule_booking", 404, "Booking not found"))
       ELSE IF ~fromisoformat_ok(new_datetime)
       THEN Return("api", Response("reschedule_booking", 400, "Invalid datetime format"))
       ELSE IF ~check_availability(bookings, fromisoformat(new_datetime), None)
       THEN Return("api", Response("reschedule_booking", 400, "New time slot not available"))
       ELSE /\ pc' = [pc EXCEPT !["api"] = "reschedule_booking"]
            /\ req' = [req EXCEPT !["api"] =
                    [op |-> "reschedule_booking", booking_id |-> booking_id,
                     new_dt |-> to_timezone(fromisoformat(new_datetime))]]
            /\ UNCHANGED resp
    /\ UNCHANGED <<service, demo_usage, bookings, users>>

\* reschedule_booking: the two assignments and the commit.
RescheduleBookingWrite ==
    /\ pc["api"] = "reschedule_booking"
    /\ bookings' = move_booking(bookings, req["api"].booking_id, req["api"].new_dt)
    /\ Return("api", Changed("reschedule_booking", 200, req["api"].booking_id))
    /\ UNCHANGED <<service, demo_usage, users>>

GetCalendarDay(day) ==
    /\ pc["api"] = "idle"
    /\ IF ~fromisoformat_ok(day)
       THEN Return("api", Response("get_calendar_day", 400, "Invalid date format"))
       ELSE Return("api", Result("get_calendar_day", 200,
                get_free_slots(bookings, fromisoformat(day))))
    /\ UNCHANGED <<service, demo_usage, bookings, users>>

---------------------------------------------------------------------------
(* The system: the database after setup, a service built from the settings *)

SettingsChoices == {DefaultSettings, UnevenSettings}

Init ==
    /\ service \in {SchedulingService(s) : s \in SettingsChoices}
    /\ bookings = <<>>
    /\ users = SampleUsers
    /\ demo_usage = <<>>
    /\ pc = [p \in Callers |-> "idle"]
    /\ req = [p \in Callers |-> NoReq]
    /\ resp = Response("none", 0, "")

\* One step of the conversation agent.
AgentNext ==
    \/ \E s \in TimeStrings : ToolCheckAvailability(s)
    \/ \E s \in TimeStrings : ToolGetFreeSlots(s)
    \/ \E n \in Names, s \in TimeStrings : BookAppointmentCheck(n, s)
    \/ BookAppointmentWrite
    \/ \E b \in BookingIds, s \in TimeStrings : RescheduleAppointmentCheck(b, s)
    \/ RescheduleAppointmentWrite
    \/ \E b \in BookingIds : CancelAppointment(b)

\* One step of the HTTP API.
ApiNext ==
    \/ \E u \in UserIds, s \in TimeStrings : CreateBookingCheck(u, s)
    \/ CreateBookingWrite
    \/ \E b \in BookingIds, s \in TimeStrings : RescheduleBookingCheck(b, s)
    \/ RescheduleBookingWrite
    \/ \E s \in TimeStrings : GetCalendarDay(s)

\* The handlers of the two callers interleave between a check and its write.
Next == AgentNext \/ ApiNext

Spec == Init /\ [][Next]_vars

\* The same handlers when each runs from its check to its write with the other
\* caller idle: no operation interleaves with another.
NextSerial ==
    \/ \E s \in TimeStrings : pc["api"] = "idle" /\ ToolCheckAvailability(s)
    \/ \E s \in TimeStrings : pc["api"] = "idle" /\ ToolGetFreeSlots(s)
    \/ \E n \in Names, s \in TimeStrings : pc["api"] = "idle" /\ BookAppointmentCheck(n, s)
    \/ pc["api"] = "idle" /\ BookAppointmentWrite
    \/ \E b \in BookingIds, s \in TimeStrings :
            pc["api"] = "idle" /\ RescheduleAppointmentCheck(b, s)
    \/ pc["api"] = "idle" /\ RescheduleAppointmentWrite
    \/ \E b \in BookingIds : pc["api"] = "idle" /\ CancelAppointment(b)
    \/ \E u \in UserIds, s \in TimeStrings : pc["agent"] = "idle" /\ CreateBookingCheck(u, s)
    \/ pc["agent"] = "idle" /\ CreateBookingWrite
    \/ \E b \in BookingIds, s \in TimeStrings :
            pc["agent"] = "idle" /\ RescheduleBookingCheck(b, s)
    \/ pc["agent"] = "idle" /\ RescheduleBookingWrite
    \/ \E s \in TimeStrings : pc["agent"] = "idle" /\ GetCalendarDay(s)

SpecSerial == Init /\ [][NextSerial]_vars

---------------------------------------------------------------------------
(* The read-only operations over any ledger *)

Statuses == {"confirmed", "cancelled", "rescheduled", "no_show"}

\* Start instants of the rows of an arbitrary ledger: Tuesday 10:00, and on
\* Wednesday 08:45 (before opening), 10:00, 10:15 and 16:45.
LedgerInstants ==
    {At(8, 10, 0), At(9, 8, 45), At(9, 10, 0), At(9, 10, 15), At(9, 16, 45)}

Rows == [appointment_datetime : LedgerInstants, status : Statuses]

Ledgers == UNION {[1 .. n -> Rows] : n \in 0 .. MaxBookings}

InitAnyLedger ==
    /\ service \in {SchedulingService(s) : s \in SettingsChoices}
    /\ bookings \in Ledgers
    /\ users = SampleUsers
    /\ demo_usage = <<>>
    /\ pc = [p \in Callers |-> "idle"]
    /\ req = [p \in Callers |-> NoReq]
    /\ resp = Response("none", 0, "")

NextReadOnly ==
    \/ \E s \in TimeStrings : ToolCheckAvailability(s)
    \/ \E s \in TimeStrings : ToolGetFreeSlots(s)
    \/ \E s \in TimeStrings : GetCalendarDay(s)

SpecAnyLedger == InitAnyLedger /\ [][NextReadOnly]_vars

---------------------------------------------------------------------------
(* The alternative-slot suggester over ledgers the handlers can produce *)

\* Every row the handlers write starts at an instant check_availability
\* accepted: a weekday instant inside business hours.  Tuesday 10:00, Wednesday
\* 09:00, 10:00 and 10:15, Thursday 10:00.
BookedInstants ==
    {At(8, 10, 0), At(9, 9, 0), At(9, 10, 0), At(9, 10, 15), At(10, 10, 0)}

\* Booking.status values the handlers write.
WrittenStatuses == {"confirmed", "cancelled", "rescheduled"}

BookedLedgers ==
    UNION {[1 .. n -> [appointment_datetime : BookedInstants, status : WrittenStatuses]] :
              n \in 0 .. MaxBookings}

\* requested_datetime values: Wednesday 10:00 and 08:30, Tuesday 10:00, Saturday
\* 10:00, and Wednesday 15:00 UTC, which is Wednesday 10:00 in the business
\* timezone.
SuggestRequests ==
    {naive(At(9, 10, 0)), naive(At(9, 8, 30)), naive(At(8, 10, 0)), naive(At(12, 10, 0)),
     utc(At(9, 15, 0))}

\* days_ahead values; 7 is the default.
DaysAhead == {-1, 0, 1, 2, 7}

\* The call holding its first suggestion by writing a row for it.
SuggestAlternativeSlots_Holds(requested_datetime, days_ahead) ==
    LET alternatives == suggest_alternative_slots(bookings, requested_datetime, days_ahead)
    IN  /\ pc["agent"] = "idle"
        /\ Return("agent", Result("suggest_alternative_slots", 0, alternatives))
        /\ bookings' = IF alternatives # <<>> /\ Len(bookings) < MaxBookings
                       THEN Append(bookings,
                                [appointment_datetime |-> to_timezone(alternatives[1]).t,
                                 status |-> "held"])
                       ELSE bookings
        /\ UNCHANGED <<service, demo_usage, users>>

\* A direct call of SchedulingService.suggest_alternative_slots.
SuggestAlternativeSlots(requested_datetime, days_ahead) ==
    /\ pc["agent"] = "idle"
    /\ Return("agent", Result("suggest_alternative_slots", 0,
            suggest_alternative_slots(bookings, requested_datetime, days_ahead)))
    /\ UNCHANGED <<service, demo_usage, bookings, users>>

InitBooked ==
    /\ service \in {SchedulingService(s) : s \in SettingsChoices}
    /\ bookings \in BookedLedgers
    /\ users = SampleUsers
    /\ demo_usage = <<>>
    /\ pc = [p \in Callers |-> "idle"]
    /\ req = [p \in Callers |-> NoReq]
    /\ resp = Response("none", 0, "")

NextSuggest ==
    \/ \E r \in SuggestRequests, d \in DaysAhead : SuggestAlternativeSlots(r, d)
    \/ \E s \in TimeStrings : ToolCheckAvailability(s)
    \/ \E s \in TimeStrings : ToolGetFreeSlots(s)

SpecSuggest == InitBooked /\ [][NextSuggest]_vars

---------------------------------------------------------------------------
(* The slot-ranking layer over ledgers the handlers can produce *)

\* Slots handed to _score_slot: Wednesday 09:00, 10:00, 11:30, 12:00, 14:30
\* and 15:00, and Saturday 10:00.
ScoreSlots ==
    {local(At(9, 9, 0)), local(At(9, 10, 0)), local(At(9, 11, 30)), local(At(9, 12, 0)),
     local(At(9, 14, 30)), local(At(9, 15, 0)), local(At(12, 10, 0))}

\* Historical summaries: no rows at all, a rate exactly at its threshold, and a
\* rate above it; no high-demand hour, and three.
HistoricalData ==
    [high_demand_hours : {{}, {9, 10, 14}},
     cancellation_rate : {<<0, 0>>, <<3, 10>>, <<2, 5>>},
     no_show_rate : {<<0, 0>>, <<1, 5>>, <<1, 4>>},
     recovery_success_rate : {<<7, 10>>, <<4, 5>>}]

\* What the ClientProfile query returns: no row, a row without preferred
\* times, a row preferring the hours 10 and 14.
NoProfile == [found |-> FALSE, preferred_times |-> [given |-> FALSE, hours |-> {}]]

Profiles ==
    {NoProfile,
     [found |-> TRUE, preferred_times |-> [given |-> FALSE, hours |-> {}]],
     [found |-> TRUE, preferred_times |-> [given |-> TRUE, hours |-> {10, 14}]]}

\* user_id: None (0) or the sample user.
OptionalUserIds == {0, 1}

\* preferred_date: None, Wednesday, Friday.
PreferredDates == {None, naive(At(9, 13, 0)), naive(At(11, 0, 0))}

\* datetime.now(): a Thursday morning.
Nows == {naive(At(10, 8, 0))}

\* days_ahead of suggest_optimal_slots.
RankingDaysAhead == {-1, 0, 1}

\* The summaries suggest_optimal_slots is called with: nothing recorded;
\* cancellations and one popular hour; no-shows, recoveries and three popular
\* hours.
RankingHistories ==
    {[high_demand_hours |-> {}, cancellation_rate |-> <<0, 0>>,
      no_show_rate |-> <<0, 0>>, recovery_success_rate |-> <<0, 0>>],
     [high_demand_hours |-> {14}, cancellation_rate |-> <<2, 5>>,
      no_show_rate |-> <<1, 5>>, recovery_success_rate |-> <<7, 10>>],
     [high_demand_hours |-> {9, 10, 14}, cancellation_rate |-> <<3, 10>>,
      no_show_rate |-> <<1, 4>>, recovery_success_rate |-> <<4, 5>>]}

\* The user and profile pairs suggest_optimal_slots is called with: no user,
\* and the sample user with a profile preferring the hours 10 and 14.
RankingUsers ==
    {<<0, NoProfile>>,
     <<1, [found |-> TRUE, preferred_times |-> [given |-> TRUE, hours |-> {10, 14}]]>>}

\* Rows of the ledgers the ranking is run on: confirmed bookings at Wednesday
\* 09:00 and Thursday 10:00, and a cancelled one at Wednesday 09:00.
RankingRows ==
    {[appointment_datetime |-> At(9, 9, 0), status |-> "confirmed"],
     [appointment_datetime |-> At(10, 10, 0), status |-> "confirmed"],
     [appointment_datetime |-> At(9, 9, 0), status |-> "cancelled"]}

RankingLedgers == UNION {[1 .. n -> RankingRows] : n \in 0 .. MaxBookings}

\* A call of SmartSchedulingService._score_slot.
ScoreSlot(slot, historical_data, user_id, profile) ==
    /\ pc["api"] = "idle"
    /\ Return("api", Result("_score_slot", 0,
            score_slot(slot, historical_data, user_id, profile)))
    /\ UNCHANGED <<service, demo_usage, bookings, users>>

\* A call of SmartSchedulingService.suggest_optimal_slots.
SuggestOptimalSlots(user_id, preferred_date, days_ahead, now, historical_data, profile) ==
    /\ pc["api"] = "idle"
    /\ Return("api", Result("suggest_optimal_slots", 0,
            suggest_optimal_slots(bookings, user_id, preferred_date, days_ahead, now,
                                  historical_data, profile)))
    /\ UNCHANGED <<service, demo_usage, bookings, users>>

InitRanking ==
    /\ service \in {SchedulingService(s) : s \in SettingsChoices}
    /\ bookings \in RankingLedgers
    /\ users = SampleUsers
    /\ demo_usage = <<>>
    /\ pc = [p \in Callers |-> "idle"]
    /\ req = [p \in Callers |-> NoReq]
    /\ resp = Response("none", 0, "")

NextScore ==
    \E slot \in ScoreSlots, h \in HistoricalData, u \in OptionalUserIds, p \in Profiles :
        ScoreSlot(slot, h, u, p)

SpecScore == Init /\ [][NextScore]_vars

NextRanking ==
    \E up \in RankingUsers, d \in PreferredDates, n \in RankingDaysAhead,
       now \in Nows, h \in RankingHistories :
        SuggestOptimalSlots(up[1], d, n, now, h, up[2])

SpecRanking == InitRanking /\ [][NextRanking]_vars

---------------------------------------------------------------------------
(* src/main.py: GET /schedule/suggest, and the calls that take a horizon *)

\* The absent optional query parameter.
NoString == [t |-> 0, z |-> "none"]

\* preferred_date of the endpoint: absent, Wednesday, unparsable.
PreferredDateStrings == {NoString, [t |-> At(9, 13, 0), z |-> ""], [t |-> 0, z |-> "bad"]}

\* The endpoint suggest_optimal_slots of main.py: it parses preferred_date when
\* one is given and hands days_ahead to the service as it came.
schedule_suggest(db, user_id, preferred_date, days_ahead, now, historical_data, profile) ==
    IF preferred_date # NoString /\ ~fromisoformat_ok(preferred_date)
    THEN Response("schedule_suggest", 400, "Invalid date format")
    ELSE Result("schedule_suggest", 200,
            suggest_optimal_slots(db, user_id,
                IF preferred_date = NoString THEN None ELSE fromisoformat(preferred_date),
                days_ahead, now, historical_data, profile))

ScheduleSuggest(user_id, preferred_date, days_ahead, now, historical_data, profile) ==
    /\ pc["api"] = "idle"
    /\ Return("api", schedule_suggest(bookings, user_id, preferred_date, days_ahead, now,
                                      historical_data, profile))
    /\ UNCHANGED <<service, demo_usage, bookings, users>>

NextHorizon ==
    \/ \E up \in RankingUsers, d \in PreferredDateStrings, n \in RankingDaysAhead,
          now \in Nows, h \in RankingHistories :
            ScheduleSuggest(up[1], d, n, now, h, up[2])
    \/ \E r \in SuggestRequests, n \in DaysAhead : SuggestAlternativeSlots(r, n)

SpecHorizon == InitRanking /\ [][NextHorizon]_vars

---------------------------------------------------------------------------
(* src/custom_script_service.py: CustomScriptService.execute_script_step *)

\* The longest script flow drawn.
MaxSteps == 2

\* next_step of the completed marker: Python's None.
NoStep == -1

\* dict.get: the value under the key, None when the key is absent.
get(d, key) == IF key \in DOMAIN d THEN d[key] ELSE "None"

\* The steps a flow is made of.  A conditional step names the variable and the
\* value it tests, the type of its "then" step and whether it has an "else".
PlainSteps ==
    {[type |-> ty, condition |-> <<>>, then |-> <<>>, else |-> FALSE] :
        ty \in {"question", "booking", "greeting", "transfer"}}
ConditionalSteps ==
    {[type |-> "conditional", condition |-> [variable |-> "intent", value |-> v],
      then |-> th, else |-> e] :
        v \in {"book"}, th \in {[type |-> "question"], <<>>}, e \in BOOLEAN}
Steps == PlainSteps \cup ConditionalSteps

ScriptFlows == UNION {[1 .. n -> Steps] : n \in 0 .. MaxSteps}
CurrentSteps == 0 .. MaxSteps + 1
CollectedData == {<<>>, [intent |-> "book"], [intent |-> "cancel"]}

\* The interpreter is started beside a scheduling service with the shipped settings.
InitScript == Init /\ service = SchedulingService(DefaultSettings)

\* The index a returned step result names as the next one.
next_step(current_step) == current_step + 1

\* A call on a branch miss that stays on the step it came from.
recursion_step_same(current_step) == current_step

\* The index the call on a branch miss is made with.
recursion_step(current_step) == current_step + 1

\* The conditional step whose condition fails and that has an "else": the one
\* case in which execute_script_step calls itself.
branch_miss(step, collected_data) ==
    /\ step.type = "conditional"
    /\ get(collected_data, get(step.condition, "variable")) # get(step.condition, "value")
    /\ step.else

\* What one invocation returns when it does not call itself.
step_result(steps, current_step, collected_data) ==
    IF current_step >= Len(steps)
    THEN [completed |-> TRUE, next_step |-> NoStep, action |-> "complete"]
    ELSE LET step == steps[current_step + 1]
         IN  CASE step.type = "question" ->
                    [type |-> "question", next_step |-> next_step(current_step)]
               [] step.type = "conditional" ->
                    IF /\ get(collected_data, get(step.condition, "variable"))
                                = get(step.condition, "value")
                       /\ get(step.then, "type") = "question"
                    THEN [type |-> "question", next_step |-> next_step(current_step)]
                    ELSE [type |-> "conditional", next_step |-> next_step(current_step)]
               [] step.type = "booking" ->
                    [type |-> "booking", next_step |-> next_step(current_step)]
               [] step.type = "greeting" ->
                    [type |-> "greeting", next_step |-> next_step(current_step)]
               [] OTHER ->
                    [type |-> "unknown", next_step |-> next_step(current_step)]

\* The caller invokes execute_script_step(script_flow, current_step, collected_data).
ExecuteScriptStep(script_flow, current_step, collected_data) ==
    /\ pc["agent"] = "idle"
    /\ pc' = [pc EXCEPT !["agent"] = "execute_script_step"]
    /\ req' = [req EXCEPT !["agent"] =
                  [op |-> "execute_script_step", steps |-> script_flow,
                   current_step |-> current_step, collected_data |-> collected_data,
                   frame_step |-> current_step, depth |-> 0]]
    /\ UNCHANGED <<service, demo_usage, bookings, users, resp>>

\* The innermost invocation misses the branch and calls itself one step on.
ScriptRecurse ==
    /\ pc["agent"] = "execute_script_step"
    /\ LET r == req["agent"]
       IN  /\ r.frame_step < Len(r.steps)
           /\ branch_miss(r.steps[r.frame_step + 1], r.collected_data)
           /\ req' = [req EXCEPT !["agent"].frame_step = recursion_step(r.frame_step),
                                 !["agent"].depth = r.depth + 1]
    /\ UNCHANGED <<service, demo_usage, bookings, users, pc, resp>>

\* The innermost invocation returns, and every invocation above it returns
\* that value unchanged.
ScriptReturn ==
    /\ pc["agent"] = "execute_script_step"
    /\ LET r == req["agent"]
       IN  /\ ~(/\ r.frame_step < Len(r.steps)
                /\ branch_miss(r.steps[r.frame_step + 1], r.collected_data))
           /\ Return("agent", Result("execute_script_step", 0,
                        step_result(r.steps, r.frame_step, r.collected_data)))
    /\ UNCHANGED <<service, demo_usage, bookings, users>>

ScriptStep == ScriptRecurse \/ ScriptReturn

NextScript ==
    \/ \E f \in ScriptFlows, n \in CurrentSteps, d \in CollectedData :
            ExecuteScriptStep(f, n, d)
    \/ ScriptRecurse
    \/ ScriptReturn

\* An invocation that is running keeps running: nothing suspends the interpreter.
SpecScript == InitScript /\ [][NextScript]_vars /\ WF_vars(ScriptStep)

---------------------------------------------------------------------------
(* src/demo_usage_service.py: DemoUsageService *)

MAX_TRIES_PER_FEATURE == 3

FEATURES == {"voice_clone", "schedule_demo", "call_draft", "simulation", "export"}

\* What callers pass: one known feature and one unknown one; a session id or
\* none (""), a user id or none (0).
FeatureNames == {"voice_clone", "bogus"}
SessionIds == {"", "s1"}
DemoUserIds == {0, 1}

\* str(user_id): the decimal text of the user ids drawn.
str(user_id) == IF user_id = 1 THEN "1" ELSE "0"

\* identifier = str(user_id) if user_id else session_id
identifier(session_id, user_id) == IF user_id # 0 THEN str(user_id) ELSE session_id

\* The filter of the DemoUsage query.
usage_matches(row, feature_name, session_id, user_id) ==
    /\ row.feature_name = feature_name
    /\ IF user_id # 0
       THEN row.session_id = identifier(session_id, user_id) \/ row.user_id = user_id
       ELSE row.session_id = identifier(session_id, user_id)

\* db.query(DemoUsage).filter(...).first(): the id of the first matching row, 0
\* for None.
usage_row(db, feature_name, session_id, user_id) ==
    LET hits == {i \in DOMAIN db : usage_matches(db[i], feature_name, session_id, user_id)}
    IN  IF hits = {} THEN 0 ELSE CHOOSE i \in hits : \A j \in hits : i <= j

\* The dict increment_demo_usage returns after db.refresh(usage).
usage_status(feature_name, tries_used) ==
    [success |-> TRUE, feature_name |-> feature_name, tries_used |-> tries_used,
     tries_remaining |-> IF MAX_TRIES_PER_FEATURE - tries_used > 0
                         THEN MAX_TRIES_PER_FEATURE - tries_used ELSE 0,
     available |-> MAX_TRIES_PER_FEATURE - tries_used > 0,
     limit |-> MAX_TRIES_PER_FEATURE]

\* increment_demo_usage up to its commit: the argument checks, the query, and
\* the limit check on the row as this session loaded it.
IncrementDemoUsage(p, feature_name, session_id, user_id) ==
    /\ pc[p] = "idle"
    /\ IF feature_name \notin FEATURES
       THEN Return(p, Response("increment_demo_usage", 400, "Invalid feature name"))
       ELSE IF identifier(session_id, user_id) = ""
       THEN Return(p, Response("increment_demo_usage", 400,
                               "Either session_id or user_id must be provided"))
       ELSE LET id == usage_row(demo_usage, feature_name, session_id, user_id)
            IN  IF id # 0 /\ demo_usage[id].tries_used >= MAX_TRIES_PER_FEATURE
                THEN Return(p, Response("increment_demo_usage", 400,
                                        "Maximum tries exceeded"))
                ELSE /\ pc' = [pc EXCEPT ![p] = "increment_demo_usage"]
                     /\ req' = [req EXCEPT ![p] =
                                  [op |-> "increment_demo_usage",
                                   feature_name |-> feature_name,
                                   session_id |-> session_id, user_id |-> user_id,
                                   usage |-> id,
                                   tries_used |-> IF id = 0 THEN 0
                                                  ELSE demo_usage[id].tries_used]]
                     /\ UNCHANGED resp
    /\ UNCHANGED <<service, demo_usage, bookings, users>>

\* db.commit() of increment_demo_usage: the loaded row is written back with the
\* count this session computed, or the new row is inserted; then the refresh.
IncrementDemoUsageCommit(p) ==
    /\ pc[p] = "increment_demo_usage"
    /\ LET r == req[p]
       IN  /\ demo_usage' =
                IF r.usage # 0
                THEN [demo_usage EXCEPT ![r.usage].tries_used = r.tries_used + 1]
                ELSE Append(demo_usage,
                            [session_id |-> identifier(r.session_id, r.user_id),
                             user_id |-> r.user_id, feature_name |-> r.feature_name,
                             tries_used |-> 1])
           /\ Return(p, Result("increment_demo_usage", 200,
                               usage_status(r.feature_name, r.tries_used + 1)))
    /\ UNCHANGED <<service, bookings, users>>

\* check_feature_availability
check_feature_availability(db, feature_name, session_id, user_id) ==
    IF identifier(session_id, user_id) = "" THEN TRUE
    ELSE LET id == usage_row(db, feature_name, session_id, user_id)
         IN  IF id = 0 THEN TRUE ELSE db[id].tries_used < MAX_TRIES_PER_FEATURE

CheckFeatureAvailability(p, feature_name, session_id, user_id) ==
    /\ pc[p] = "idle"
    /\ Return(p, Result("check_feature_availability", 0,
                        check_feature_availability(demo_usage, feature_name,
                                                   session_id, user_id)))
    /\ UNCHANGED <<service, demo_usage, bookings, users>>

\* The demo endpoints start beside a scheduling service with the shipped settings.
InitDemo == Init /\ service = SchedulingService(DefaultSettings)

NextDemo ==
    \/ \E p \in Callers, f \in FeatureNames, s \in SessionIds, u \in DemoUserIds :
            IncrementDemoUsage(p, f, s, u)
    \/ \E p \in Callers : IncrementDemoUsageCommit(p)
    \/ \E p \in Callers, f \in FeatureNames, s \in SessionIds, u \in DemoUserIds :
            CheckFeatureAvailability(p, f, s, u)

SpecDemo == InitDemo /\ [][NextDemo]_vars

---------------------------------------------------------------------------
(* Ledgers holding rows that were marked no_show, and the operations that write *)

\* Rows as the handlers leave them, some of them marked no_show afterwards (no
\* handler writes that status; smart_scheduling.py counts the rows that have it).
NoShowRows ==
    [appointment_datetime : {At(8, 10, 0), At(9, 10, 0)}, status : {"confirmed", "no_show"}]

NoShowLedgers == UNION {[1 .. n -> NoShowRows] : n \in 1 .. MaxBookings}

InitNoShow ==
    /\ service = SchedulingService(DefaultSettings)
    /\ bookings \in NoShowLedgers
    /\ users = SampleUsers
    /\ demo_usage = <<>>
    /\ pc = [p \in Callers |-> "idle"]
    /\ req = [p \in Callers |-> NoReq]
    /\ resp = Response("none", 0, "")

\* The operations of the agent and of the API that change an existing row.
NextChange ==
    \/ \E b \in BookingIds, s \in TimeStrings : RescheduleAppointmentCheck(b, s)
    \/ RescheduleAppointmentWrite
    \/ \E b \in BookingIds : CancelAppointment(b)
    \/ \E b \in BookingIds, s \in TimeStrings : RescheduleBookingCheck(b, s)
    \/ RescheduleBookingWrite

SpecNoShow == InitNoShow /\ [][NextChange]_vars

---------------------------------------------------------------------------
(* What the properties quantify over *)

\* Instants asked about: Tuesday 10:00; Wednesday 08:45, 08:59, 09:00, 10:00,
\* 10:15, 10:30, 16:30, 16:59 and 17:00; Saturday 10:00.
ProbeInstants ==
    {At(8, 10, 0), At(9, 8, 45), At(9, 8, 59), At(9, 9, 0), At(9, 10, 0), At(9, 10, 15),
     At(9, 10, 30), At(9, 16, 30), At(9, 16, 59), At(9, 17, 0), At(12, 10, 0)}

\* Each instant written without an offset and written in UTC.
Probes ==
    {naive(t) : t \in ProbeInstants} \cup {utc(t - TzOffsetMinutes) : t \in ProbeInstants}

\* Explicit end arguments tried with a start: none, and 0, 15 and 60 minutes later.
ProbeEnds(start) == {None, plus(start, 0), plus(start, 15), plus(start, 60)}

\* Days asked about: Tuesday, Wednesday (at 13:00), Saturday, and Wednesday
\* 03:00 UTC, which is still Tuesday evening in the business timezone.
ProbeDays ==
    {naive(At(8, 0, 0)), naive(At(9, 13, 0)), naive(At(12, 9, 0)), utc(At(9, 3, 0))}

Range(f) == {f[i] : i \in DOMAIN f}

instant(dt) == to_timezone(dt).t

\* Two slots starting at a and b share some time.
Overlap(a, b) ==
    a < b + service.slot_duration /\ b < a + service.slot_duration

ConfirmedRows(db) == {i \in DOMAIN db : db[i].status = "confirmed"}

\* The ledger with every row that is not confirmed removed.
ConfirmedOnly(db) == SelectSeq(db, LAMBDA b : b.status = "confirmed")

IsDefaultService == service = SchedulingService(DefaultSettings)

---------------------------------------------------------------------------
(* C1 *)

\* C1: when no operation interleaves with another, no two distinct confirmed
\* bookings have overlapping intervals [start, start + slot_duration).
C1_NoDoubleBooking ==
    \A i, j \in ConfirmedRows(bookings) :
        i # j => ~Overlap(bookings[i].appointment_datetime, bookings[j].appointment_datetime)

\* Two confirmed bookings stand side by side after a run of serial operations.
C1_Witness ==
    \E i, j \in ConfirmedRows(bookings) :
        /\ i # j
        /\ bookings[j].appointment_datetime
              = bookings[i].appointment_datetime + service.slot_duration

---------------------------------------------------------------------------
(* C2 *)

\* C2: nothing stops the check-then-act race: a handler that passed its check
\* commits its confirmed booking whatever was written since (no lock, no
\* re-check at write time), so two overlapping confirmed bookings can arise.
C2_WriteWithoutRecheck ==
    [][/\ (pc["agent"] = "book_appointment" /\ pc'["agent"] = "idle")
            => /\ Len(bookings') = Len(bookings) + 1
               /\ bookings'[Len(bookings')].status = "confirmed"
               /\ bookings'[Len(bookings')].appointment_datetime
                     = req["agent"].appointment_dt.t
       /\ (pc["api"] = "create_booking" /\ pc'["api"] = "idle")
            => /\ Len(bookings') = Len(bookings) + 1
               /\ bookings'[Len(bookings')].status = "confirmed"
               /\ bookings'[Len(bookings')].appointment_datetime
                     = req["api"].appointment_dt.t]_vars

\* Both callers checked before either committed: two confirmed bookings overlap.
C2_Witness ==
    \E i, j \in ConfirmedRows(bookings) :
        /\ i # j
        /\ Overlap(bookings[i].appointment_datetime, bookings[j].appointment_datetime)

---------------------------------------------------------------------------
(* C3 *)

\* C3: check_availability(start, end), end defaulting to start + slot_duration,
\* is true exactly when start's local time of day is in [business_start,
\* business_end), start is on Monday-Friday, and no confirmed booking b has
\* b.start < end and b.start + slot_duration > start; with one confirmed
\* booking at 10:00 and 30-minute slots, 10:00 and 10:15 are unavailable and
\* 10:30 is available.
C3_AvailabilityRule ==
    /\ \A start \in Probes : \A end \in ProbeEnds(start) :
          LET s == instant(start)
              e == IF end = None THEN s + service.slot_duration ELSE instant(end)
          IN  check_availability(bookings, start, end)
                = (/\ service.business_start <= s % MinutesPerDay
                   /\ s % MinutesPerDay < service.business_end
                   /\ (s \div MinutesPerDay) % 7 \in 0 .. 4
                   /\ ~\E i \in DOMAIN bookings :
                          /\ bookings[i].status = "confirmed"
                          /\ bookings[i].appointment_datetime < e
                          /\ bookings[i].appointment_datetime + service.slot_duration > s)
    /\ (/\ IsDefaultService
        /\ {bookings[i].appointment_datetime : i \in ConfirmedRows(bookings)}
              = {At(9, 10, 0)})
          => /\ ~check_availability(bookings, naive(At(9, 10, 0)), None)
             /\ ~check_availability(bookings, naive(At(9, 10, 15)), None)
             /\ check_availability(bookings, naive(At(9, 10, 30)), None)

\* One confirmed booking at Wednesday 10:00, and the tool has just answered
\* that 10:30 is available.
C3_Witness ==
    /\ IsDefaultService
    /\ {bookings[i].appointment_datetime : i \in ConfirmedRows(bookings)} = {At(9, 10, 0)}
    /\ resp.op = "check_availability"
    /\ resp.detail = ""
    /\ resp.value = TRUE

---------------------------------------------------------------------------
(* C4 *)

ReschedulePending == {"reschedule_appointment", "reschedule_booking"}

\* C4: after a reschedule from t_old to t_new succeeds, the booking occupies
\* t_new (check_availability(t_new) is false and t_new is absent from
\* get_free_slots of that day) and t_old is freed (check_availability(t_old) is
\* true if no other confirmed booking overlaps it).
C4_RescheduleOccupiesNewTime ==
    [][\A p \in Callers :
          (pc[p] \in ReschedulePending /\ pc'[p] = "idle")
            => LET t_new == req[p].new_dt
                   t_old == bookings[req[p].booking_id].appointment_datetime
               IN  /\ ~check_availability(bookings', t_new, None)
                   /\ t_new \notin Range(get_free_slots(bookings', t_new))
                   /\ (~\E j \in ConfirmedRows(bookings') :
                            Overlap(bookings'[j].appointment_datetime, t_old))
                        => check_availability(bookings', local(t_old), None)]_vars

---------------------------------------------------------------------------
(* C5 *)

Unavailable ==
    {"Slot not available", "New slot not available",
     "Time slot not available", "New time slot not available"}

\* The datetime a handler past its check holds.
HeldTime(r) == IF r.op \in ReschedulePending THEN r.new_dt ELSE r.appointment_dt

\* C5: when check_availability is false for the requested time the write does
\* not happen: the handler returns its rejection with the ledger as it was,
\* and only a request whose time is available goes on to its write.
C5_RejectedLeavesLedger ==
    [][/\ resp'.detail \in Unavailable => bookings' = bookings
       /\ \A p \in Callers :
             (pc[p] = "idle" /\ pc'[p] # "idle")
               => /\ check_availability(bookings, HeldTime(req'[p]), None)
                  /\ bookings' = bookings]_vars

\* A booking request has just been turned down because of a confirmed booking.
C5_Witness ==
    /\ resp.op \in {"book_appointment", "create_booking"}
    /\ resp.detail \in Unavailable
    /\ ConfirmedRows(bookings) # {}

---------------------------------------------------------------------------
(* C6 *)

\* The grid of a day: business_start + k * slot_duration, before business_end.
Grid(day) ==
    LET day_start == date(to_timezone(day)) * MinutesPerDay + service.business_start
        day_end == date(to_timezone(day)) * MinutesPerDay + service.business_end
    IN  {day_start + k * service.slot_duration :
            k \in 0 .. ((service.business_end - service.business_start)
                            \div service.slot_duration)}
        \cap (day_start .. day_end - 1)

\* C6: in every reachable ledger state and for every business day, every
\* instant get_free_slots(day) returns is available by check_availability, and
\* every grid slot of the day it omits is unavailable.
C6_SlotsAgree ==
    \A day \in ProbeDays :
        weekday(to_timezone(day)) < 5 =>
            LET free_slots == get_free_slots(bookings, day)
            IN  /\ \A k \in DOMAIN free_slots :
                      check_availability(bookings, free_slots[k], None)
                /\ \A g \in Grid(day) :
                      local(g) \notin Range(free_slots)
                        => ~check_availability(bookings, local(g), None)

\* A confirmed booking at Wednesday 10:15, off the grid, and get_free_slots
\* has just returned the day without the 10:00 slot.
C6_Witness ==
    /\ \E i \in ConfirmedRows(bookings) : bookings[i].appointment_datetime = At(9, 10, 15)
    /\ resp.op = "get_free_slots"
    /\ resp.detail = ""
    /\ resp.value = get_free_slots(bookings, naive(At(9, 10, 0)))
    /\ local(At(9, 10, 0)) \notin Range(resp.value)
    /\ local(At(9, 9, 0)) \in Range(resp.value)

---------------------------------------------------------------------------
(* C7 *)

\* C7: only confirmed bookings occupy the calendar: on any ledger,
\* check_availability and get_free_slots return what they return on the ledger
\* with every cancelled, rescheduled or no_show booking removed.
C7_OnlyConfirmedOccupy ==
    /\ \A start \in Probes :
          check_availability(bookings, start, None)
            = check_availability(ConfirmedOnly(bookings), start, None)
    /\ \A day \in ProbeDays :
          get_free_slots(bookings, day) = get_free_slots(ConfirmedOnly(bookings), day)

\* The only row at Wednesday 10:00 is a no_show, and the tool has just answered
\* that a slot is available.
C7_Witness ==
    /\ IsDefaultService
    /\ \E i \in DOMAIN bookings :
          bookings[i].appointment_datetime = At(9, 10, 0) /\ bookings[i].status = "no_show"
    /\ \A i \in DOMAIN bookings :
          bookings[i].appointment_datetime = At(9, 10, 0) /\ bookings[i].status = "no_show"
    /\ resp.op = "check_availability"
    /\ resp.detail = ""
    /\ resp.value = TRUE

---------------------------------------------------------------------------
(* C8 *)

\* The grid slot of its day that contains instant t.
GridSlotOf(t) ==
    LET day_start == (t \div MinutesPerDay) * MinutesPerDay + service.business_start
    IN  day_start + ((t - day_start) \div service.slot_duration) * service.slot_duration

\* C8: cancelling a confirmed booking at a business-hours time t frees its
\* slot: right after, check_availability(t) is true and t's grid slot is back
\* in get_free_slots, provided no other confirmed booking overlaps it.
C8_CancelFreesSlot ==
    [][(/\ resp'.op = "cancel_appointment"
        /\ resp'.detail = "success"
        /\ bookings[resp'.booking_id].status = "confirmed"
        /\ is_business_hours(local(bookings[resp'.booking_id].appointment_datetime))
        /\ is_weekday(local(bookings[resp'.booking_id].appointment_datetime)))
          => LET t == bookings[resp'.booking_id].appointment_datetime
                 g == GridSlotOf(t)
                 others == ConfirmedRows(bookings') \ {resp'.booking_id}
             IN  /\ (~\E j \in others : Overlap(bookings'[j].appointment_datetime, t))
                      => check_availability(bookings', local(t), None)
                 /\ (~\E j \in others : Overlap(bookings'[j].appointment_datetime, g))
                      => local(g) \in Range(get_free_slots(bookings', local(t)))]_vars

\* The booking at Wednesday 10:15 has just been cancelled; 10:15 is available
\* again and the 10:00 grid slot is free again.
C8_Witness ==
    /\ resp.op = "cancel_appointment"
    /\ resp.detail = "success"
    /\ bookings[resp.booking_id].status = "cancelled"
    /\ bookings[resp.booking_id].appointment_datetime = At(9, 10, 15)
    /\ check_availability(bookings, local(At(9, 10, 15)), None)
    /\ local(GridSlotOf(At(9, 10, 15))) \in Range(get_free_slots(bookings, local(At(9, 10, 15))))

---------------------------------------------------------------------------
(* C9 *)

\* C9: every element of get_free_slots(day) is business_start + k *
\* slot_duration for an integer k >= 0 and lies strictly before business_end,
\* the list is strictly ascending, and with an empty ledger, hours 09:00-17:00
\* and 30-minute slots it is the 16 slots 09:00, 09:30, ..., 16:30.
C9_SlotsOnGrid ==
    \A day \in ProbeDays :
        LET free_slots == get_free_slots(bookings, day)
            d == date(to_timezone(day))
        IN  /\ \A k \in DOMAIN free_slots :
                  /\ date(free_slots[k]) = d
                  /\ time(free_slots[k]) >= service.business_start
                  /\ (time(free_slots[k]) - service.business_start)
                        % service.slot_duration = 0
                  /\ time(free_slots[k]) < service.business_end
            /\ \A k \in DOMAIN free_slots :
                  k > 1 => free_slots[k - 1].t < free_slots[k].t
            /\ (bookings = <<>> /\ IsDefaultService /\ d % 7 < 5)
                  => free_slots = [k \in 1 .. 16 |-> local(At(d, 9, 0) + 30 * (k - 1))]

\* The ledger is empty and get_free_slots has just returned 16 slots.
C9_Witness ==
    /\ bookings = <<>>
    /\ IsDefaultService
    /\ resp.op = "get_free_slots"
    /\ resp.detail = ""
    /\ Len(resp.value) = 16

---------------------------------------------------------------------------
(* C10 *)

\* C10: no slot get_free_slots returns extends past business_end: when the
\* business day is not a whole number of slots, the last, partial slot is not
\* returned.
C10_NoSlotPastClosing ==
    \A day \in ProbeDays :
        LET free_slots == get_free_slots(bookings, day)
        IN  \A k \in DOMAIN free_slots :
                time(free_slots[k]) + service.slot_duration <= service.business_end

---------------------------------------------------------------------------
(* C11 *)

\* C11: at the business-hours boundary (hours 09:00-17:00, 30-minute slots,
\* empty ledger, a weekday) check_availability rejects 08:59, accepts 16:30,
\* rejects 16:59 and rejects 17:00.
C11_BoundaryRequests ==
    (IsDefaultService /\ bookings = <<>>)
        => /\ ~check_availability(bookings, naive(At(9, 8, 59)), None)
           /\ check_availability(bookings, naive(At(9, 16, 30)), None)
           /\ ~check_availability(bookings, naive(At(9, 16, 59)), None)
           /\ ~check_availability(bookings, naive(At(9, 17, 0)), None)

---------------------------------------------------------------------------
(* C12 *)

\* Saturday and Sunday instants of the business timezone, written without an
\* offset and in UTC (Monday 03:00 UTC is Sunday 22:00 in the business timezone).
WeekendProbes ==
    {naive(At(12, 9, 0)), naive(At(12, 10, 0)), naive(At(13, 10, 0)), naive(At(13, 16, 30)),
     utc(At(12, 15, 0)), utc(At(13, 14, 0)), utc(At(14, 3, 0))}

\* C12: get_free_slots on a Saturday or Sunday returns the empty list, and
\* check_availability on a Saturday or Sunday instant is false in every ledger
\* state, the empty ledger included.
C12_WeekendExclusion ==
    \A w \in WeekendProbes :
        /\ weekday(to_timezone(w)) \in {5, 6}
        /\ get_free_slots(bookings, w) = <<>>
        /\ get_free_slots(<<>>, w) = <<>>
        /\ \A end \in ProbeEnds(w) :
              /\ ~check_availability(bookings, w, end)
              /\ ~check_availability(<<>>, w, end)

\* get_free_slots has just answered a Saturday request with the empty list.
C12_Witness ==
    /\ resp.op = "get_free_slots"
    /\ resp.detail = ""
    /\ resp.value = <<>>
    /\ get_free_slots(bookings, naive(At(12, 10, 0))) = <<>>

---------------------------------------------------------------------------
(* C13 - C16: the alternative-slot suggester *)

\* The day offsets -1, +1, -2, +2, ..., -n, +n.
OffsetOrder(n) ==
    [k \in 1 .. (IF n > 0 THEN 2 * n ELSE 0) |->
        IF k % 2 = 1 THEN -((k + 1) \div 2) ELSE k \div 2]

\* The instants of calendar day d + offset at time of day t, in that order.
CandidatesAt(d, t, n) ==
    [k \in DOMAIN OffsetOrder(n) |-> local((d + OffsetOrder(n)[k]) * MinutesPerDay + t)]

\* The members of a sequence that are available in ledger db, in order.
AvailableIn(db, seq) == SelectSeq(seq, LAMBDA c : check_availability(db, c, None))

\* The request itself when it is available.
ExactIfAvailable(db, r) == IF check_availability(db, r, None) THEN <<r>> ELSE <<>>

\* What the suggester has collected when its day offsets are exhausted, with
\* the candidates taken at the date and time the request was written with.
Collected(db, r, n) ==
    ExactIfAvailable(db, r) \o AvailableIn(db, CandidatesAt(date(r), time(r), n))

C14_OffsetOrderAndCutoff ==
    \A r \in SuggestRequests, n \in DaysAhead :
        LET alternatives == suggest_alternative_slots(bookings, r, n)
            requested == to_timezone(r)
            candidates == CandidatesAt(date(requested), time(requested), n)
            expected == ExactIfAvailable(bookings, r) \o AvailableIn(bookings, candidates)
            previous_day == plus(requested, -MinutesPerDay)
            next_day == plus(requested, MinutesPerDay)
        IN  /\ IF Len(expected) >= 5
               THEN alternatives = slice_to(expected, 5)
               ELSE slice_to(alternatives, Len(expected)) = expected
            /\ (/\ n >= 1
                /\ ~check_availability(bookings, r, None)
                /\ check_availability(bookings, previous_day, None)
                /\ check_availability(bookings, next_day, None))
                  => /\ Len(alternatives) >= 2
                     /\ alternatives[1] = previous_day
                     /\ alternatives[2] = next_day

\* C15: when the requested instant is available it is the first element of
\* the result; when it is not, it does not appear in the result.
C15_ExactRequestFirst ==
    \A r \in SuggestRequests, n \in DaysAhead :
        LET alternatives == suggest_alternative_slots(bookings, r, n)
        IN  IF check_availability(bookings, r, None)
            THEN Len(alternatives) >= 1 /\ alternatives[1] = r
            ELSE \A k \in DOMAIN alternatives : instant(alternatives[k]) # instant(r)

\* The suggester has just returned an available request, written in UTC, as
\* its first element.
C15_Witness ==
    /\ resp.op = "suggest_alternative_slots"
    /\ Len(resp.value) >= 1
    /\ resp.value[1] = utc(At(9, 15, 0))
    /\ check_availability(bookings, utc(At(9, 15, 0)), None)

\* C16: with fewer than 3 alternatives collected once the day offsets are
\* exhausted, the free slots of the requested day are appended in ascending
\* order until the result has 5 entries or the free slots run out; with 3 or 4
\* collected nothing is appended and the result is exactly those.
C16_PaddingRule ==
    \A r \in SuggestRequests, n \in DaysAhead :
        LET alternatives == suggest_alternative_slots(bookings, r, n)
            collected == Collected(bookings, r, n)
            free_slots == get_free_slots(bookings, r)
            total == Len(collected) + Len(free_slots)
        IN  /\ Len(collected) < 3
                => /\ Len(alternatives) = (IF total < 5 THEN total ELSE 5)
                   /\ \A k \in DOMAIN alternatives :
                         alternatives[k] = IF k <= Len(collected)
                                           THEN collected[k]
                                           ELSE free_slots[k - Len(collected)]
            /\ Len(collected) \in {3, 4} => alternatives = collected

\* The suggester has just returned exactly three alternatives: the request
\* and its two neighbouring days, with nothing appended.
C16_Witness ==
    /\ resp.op = "suggest_alternative_slots"
    /\ Len(resp.value) = 3
    /\ resp.value[1] = naive(At(9, 10, 0))
    /\ resp.value[2] = local(At(8, 10, 0))
    /\ resp.value[3] = local(At(10, 10, 0))

---------------------------------------------------------------------------
(* C17 *)

ReadOnlyOps == {"check_availability", "get_free_slots", "suggest_alternative_slots"}

\* C17: check_availability, get_free_slots and suggest_alternative_slots are
\* read-only: a call of any of them leaves the set of Booking rows and every
\* row's appointment_datetime and status as they were, for every input and
\* ledger state.
C17_ReadOnly ==
    [][resp'.op \in ReadOnlyOps => bookings' = bookings]_vars

\* The suggester has just returned alternatives computed from a ledger that
\* holds a confirmed and a cancelled booking.
C17_Witness ==
    /\ resp.op = "suggest_alternative_slots"
    /\ resp.value # <<>>
    /\ \E i, j \in DOMAIN bookings :
          bookings[i].status = "confirmed" /\ bookings[j].status = "cancelled"

---------------------------------------------------------------------------
(* C18 *)

FreeSlotOps == {"get_free_slots", "get_calendar_day"}

\* C18: get_free_slots is recomputed from the ledger at each call: a result
\* returned after a confirmed booking was created omits every grid slot the
\* booking overlaps, and a result returned after that booking was cancelled
\* contains its grid slot again (unless another confirmed booking overlaps
\* it); nothing of an earlier result is reused.
C18_RecomputedEachCall ==
    (resp.op \in FreeSlotOps /\ resp.detail = "" /\ resp.value # <<>>)
        => LET day == resp.value[1]
           IN  /\ \A i \in ConfirmedRows(bookings) : \A g \in Grid(day) :
                     Overlap(bookings[i].appointment_datetime, g)
                        => local(g) \notin Range(resp.value)
               /\ \A i \in DOMAIN bookings :
                     (/\ bookings[i].status = "cancelled"
                      /\ bookings[i].appointment_datetime \in Grid(day)
                      /\ ~\E j \in ConfirmedRows(bookings) :
                            Overlap(bookings[j].appointment_datetime,
                                    bookings[i].appointment_datetime))
                        => local(bookings[i].appointment_datetime) \in Range(resp.value)

\* The booking at Wednesday 10:00 has been cancelled and get_free_slots has
\* just returned a day that has the 10:00 slot again, next to a confirmed
\* booking at 10:30 whose slot it omits.
C18_Witness ==
    /\ resp.op = "get_free_slots"
    /\ resp.detail = ""
    /\ \E i \in DOMAIN bookings :
          bookings[i].status = "cancelled" /\ bookings[i].appointment_datetime = At(9, 10, 0)
    /\ \E i \in ConfirmedRows(bookings) : bookings[i].appointment_datetime = At(9, 10, 30)
    /\ local(At(9, 10, 0)) \in Range(resp.value)
    /\ local(At(9, 10, 30)) \notin Range(resp.value)

---------------------------------------------------------------------------
(* C19 *)

\* C19: every score of _score_slot lies in [0, 100] and equals min(100, 50 +
\* the bonuses that fired): exactly one of +20 (hour in the high-demand hours)
\* and +10 (otherwise) for every slot, +15 (cancellation rate > 0.3 and hour <
\* 12), +15 (no-show rate > 0.2 and 10 <= hour <= 14), +25 (the user's profile
\* prefers the hour), +10 (Monday to Friday), +10 (recovery success rate > 0.7).
C19_ScoreFormula ==
    \A slot \in ScoreSlots, h \in HistoricalData, u \in OptionalUserIds, p \in Profiles :
        LET score == score_slot(slot, h, u, p).score
            hr == (slot.t % MinutesPerDay) \div 60
            high_demand == IF hr \in h.high_demand_hours THEN 20 ELSE 0
            baseline == IF hr \notin h.high_demand_hours THEN 10 ELSE 0
            cancellation ==
                IF /\ h.cancellation_rate[2] # 0
                   /\ 10 * h.cancellation_rate[1] > 3 * h.cancellation_rate[2]
                   /\ hr < 12
                THEN 15 ELSE 0
            no_show ==
                IF /\ h.no_show_rate[2] # 0
                   /\ 10 * h.no_show_rate[1] > 2 * h.no_show_rate[2]
                   /\ hr \in 10 .. 14
                THEN 15 ELSE 0
            preference ==
                IF u # 0 /\ p.found /\ p.preferred_times.given
                         /\ hr \in p.preferred_times.hours
                THEN 25 ELSE 0
            weekday_bonus == IF (slot.t \div MinutesPerDay) % 7 \in 0 .. 4 THEN 10 ELSE 0
            recovery ==
                IF /\ h.recovery_success_rate[2] # 0
                   /\ 10 * h.recovery_success_rate[1] > 7 * h.recovery_success_rate[2]
                THEN 10 ELSE 0
            total == 50 + high_demand + baseline + cancellation + no_show + preference
                        + weekday_bonus + recovery
        IN  /\ score \in 0 .. 100
            /\ score = (IF total < 100 THEN total ELSE 100)
            /\ (high_demand = 20) # (baseline = 10)
            /\ resp.op = "_score_slot" => resp.value.score \in 0 .. 100

\* _score_slot has just scored a slot for which all six factors fired: 145
\* points, returned as 100.
C19_Witness ==
    /\ resp.op = "_score_slot"
    /\ resp.value.score = 100
    /\ Len(resp.value.reasoning_parts) = 6
    /\ resp.value.reasoning_parts[1] = "Popular time slot"

---------------------------------------------------------------------------
(* C20 *)

\* C20: suggest_optimal_slots returns at most 5 suggestions; they are the
\* highest-scoring free slots of the date range, in descending score order, and
\* among slots of equal score the earlier instant comes first, both inside the
\* list and in deciding which slots of equal score are among the 5.
C20_TopFiveEarliestFirst ==
    \A up \in RankingUsers, d \in PreferredDates, n \in RankingDaysAhead,
       now \in Nows, h \in RankingHistories :
        LET suggestions ==
                suggest_optimal_slots(bookings, up[1], d, n, now, h, up[2]).suggestions
            start_date == (IF d = None THEN now.t ELSE d.t) \div MinutesPerDay
            free == UNION {Range(get_free_slots(bookings, naive(day * MinutesPerDay))) :
                              day \in start_date .. start_date + n}
            score_of(slot) == score_slot(slot, h, up[1], up[2]).score
            chosen == {suggestions[k].datetime.t : k \in DOMAIN suggestions}
        IN  /\ Len(suggestions) = (IF Cardinality(free) < 5 THEN Cardinality(free) ELSE 5)
            /\ \A k \in DOMAIN suggestions :
                  /\ local(suggestions[k].datetime.t) \in free
                  /\ suggestions[k].score = score_of(local(suggestions[k].datetime.t))
            /\ \A k \in DOMAIN suggestions :
                  k > 1 =>
                    \/ suggestions[k - 1].score > suggestions[k].score
                    \/ /\ suggestions[k - 1].score = suggestions[k].score
                       /\ suggestions[k - 1].datetime.t < suggestions[k].datetime.t
            /\ \A slot \in free :
                  slot.t \notin chosen =>
                    \A k \in DOMAIN suggestions :
                        \/ score_of(slot) < suggestions[k].score
                        \/ /\ score_of(slot) = suggestions[k].score
                           /\ slot.t > suggestions[k].datetime.t

\* suggest_optimal_slots has just returned 5 suggestions of one and the same
\* score out of more free slots, the earliest of them first, on a ledger with a
\* confirmed booking.
C20_Witness ==
    /\ resp.op = "suggest_optimal_slots"
    /\ resp.value.total_available > 5
    /\ Len(resp.value.suggestions) = 5
    /\ resp.value.suggestions[1].score = resp.value.suggestions[5].score
    /\ resp.value.suggestions[1].datetime.t < resp.value.suggestions[5].datetime.t
    /\ ConfirmedRows(bookings) # {}

---------------------------------------------------------------------------
(* C21 *)

\* The free slots of Wednesday, which _score_slot is handed by
\* suggest_optimal_slots.
WednesdaySlots == Range(get_free_slots(bookings, naive(At(9, 0, 0))))

\* Historical summaries with a cancellation rate above 0.3.
HighCancellation ==
    {h \in HistoricalData : 10 * h.cancellation_rate[1] > 3 * h.cancellation_rate[2]}

\* For slot a every bonus other than the morning one fires as it does for m.
SameOtherBonuses(m, a, h, u, p) ==
    LET fm == factors(m, h, u, p)
        fa == factors(a, h, u, p)
    IN  /\ fm.popular = fa.popular
        /\ fm.midday = fa.midday
        /\ fm.preferred = fa.preferred
        /\ fm.weekday_slot = fa.weekday_slot
        /\ fm.recovering = fa.recovering

\* C21 as stated: with a historical cancellation rate above 0.3, every morning
\* slot (hour < 12) gets a final score at least 15 points above that of an
\* afternoon slot for which all other bonuses fire identically.
C21_MorningFifteenHigher ==
    \A h \in HighCancellation, u \in OptionalUserIds, p \in Profiles :
        \A m, a \in WednesdaySlots :
            (hour(m) < 12 /\ hour(a) >= 12 /\ SameOtherBonuses(m, a, h, u, p))
                => score_slot(m, h, u, p).score >= score_slot(a, h, u, p).score + 15

\* C21 amended: such a morning slot never scores below the afternoon slot, and
\* scores exactly 15 points above it unless that would exceed 100, in which
\* case the morning score is 100.
C21_MorningFifteenHigherUpToCap ==
    \A h \in HighCancellation, u \in OptionalUserIds, p \in Profiles :
        \A m, a \in WednesdaySlots :
            (hour(m) < 12 /\ hour(a) >= 12 /\ SameOtherBonuses(m, a, h, u, p))
                => LET morning == score_slot(m, h, u, p).score
                       afternoon == score_slot(a, h, u, p).score
                   IN  /\ morning >= afternoon
                       /\ morning = (IF afternoon + 15 < 100 THEN afternoon + 15 ELSE 100)

\* _score_slot has just given a morning slot 85 points: the baseline, the
\* morning and the weekday bonus.
C21_Witness ==
    /\ resp.op = "_score_slot"
    /\ resp.value.score = 85
    /\ resp.value.reasoning_parts
         = <<"Available time slot", "Morning slot (lower cancellation risk)",
             "Weekday appointment">>

---------------------------------------------------------------------------
(* C22 *)

\* An ordinary answer of suggest_alternative_slots: a list of instants.
AlternativeLists == Seq([t : Int, tz : {"naive", "utc", "local"}])

\* C22: a days_ahead that is not positive is rejected as an input error, before
\* any ledger query, by suggest_alternative_slots and by suggest_optimal_slots
\* and its endpoint; it is never answered with an ordinary, possibly empty,
\* result.
C22_NonPositiveHorizonRejected ==
    /\ \A r \in SuggestRequests, n \in DaysAhead :
          n <= 0 => suggest_alternative_slots(bookings, r, n) \notin AlternativeLists
    /\ \A up \in RankingUsers, d \in PreferredDateStrings, n \in RankingDaysAhead,
          now \in Nows, h \in RankingHistories :
          n <= 0 =>
            LET answer == schedule_suggest(bookings, up[1], d, n, now, h, up[2])
            IN  answer.code = 400 /\ answer.detail # ""

---------------------------------------------------------------------------
(* C23 *)

\* C23: create_booking tells its outcome classes apart: a malformed datetime
\* is a 400, an unavailable slot the 400 "Time slot not available", an unknown
\* user the 404, and only a storage failure a 500; an unavailable slot never
\* has the status of an infrastructure failure.
C23_OutcomeClasses ==
    resp.op = "create_booking"
        => /\ resp.detail = "Invalid datetime format" => resp.code = 400
           /\ resp.detail = "Time slot not available" => resp.code = 400
           /\ resp.detail = "User not found" => resp.code = 404
           /\ resp.code = 500 => resp.detail \notin Unavailable

---------------------------------------------------------------------------
(* C26 *)

Running == pc["agent"] = "execute_script_step"

\* While execute_script_step runs, the innermost invocation stands exactly
\* depth steps after the caller's current_step, and the depth is bounded by the
\* steps that remain (none remain when current_step is past the end).
DepthBounded ==
    Running =>
        LET r == req["agent"]
            remaining == IF r.current_step <= Len(r.steps)
                         THEN Len(r.steps) - r.current_step ELSE 0
        IN  /\ r.frame_step = r.current_step + r.depth
            /\ r.depth <= remaining

\* The value handed back is the completed marker or names a later step.
ReturnsLaterStep ==
    Running /\ ~Running' =>
        LET r == req["agent"]
            result == resp'.value
        IN  \/ /\ "completed" \in DOMAIN result
               /\ result.next_step = NoStep
               /\ r.frame_step >= Len(r.steps)
            \/ /\ "completed" \notin DOMAIN result
               /\ result.next_step > r.current_step

---------------------------------------------------------------------------
(* C27 *)

RECURSIVE tries_sum(_, _, _)
\* The tries recorded for one identifier and feature, over every row kept for them.
tries_sum(db, ident, feature_name) ==
    IF db = <<>> THEN 0
    ELSE tries_sum(Tail(db), ident, feature_name)
         + (IF Head(db).session_id = ident /\ Head(db).feature_name = feature_name
            THEN Head(db).tries_used ELSE 0)

DemoIdentifiers == {"s1", "1"}

\* No row, and no identifier and feature, has more than the limit recorded.
TriesWithinLimit ==
    /\ \A i \in DOMAIN demo_usage : demo_usage[i].tries_used <= MAX_TRIES_PER_FEATURE
    /\ \A ident \in DemoIdentifiers, f \in FEATURES :
            tries_sum(demo_usage, ident, f) <= MAX_TRIES_PER_FEATURE

\* A call that succeeds records exactly one more try for its identifier and
\* feature; a call that raises records nothing.
EachSuccessCounted ==
    /\ \A p \in Callers :
            pc[p] = "increment_demo_usage" /\ pc'[p] = "idle" =>
                LET ident == identifier(req[p].session_id, req[p].user_id)
                IN  /\ resp'.code = 200
                    /\ tries_sum(demo_usage', ident, req[p].feature_name)
                            = tries_sum(demo_usage, ident, req[p].feature_name) + 1
    /\ resp'.op = "increment_demo_usage" /\ resp'.code # 200 => demo_usage' = demo_usage

\* C27: the limit of 3 tries per feature is enforced: for every identifier and
\* feature tries_used never exceeds 3, at most 3 calls of increment_demo_usage
\* succeed (each success records one more try, and no more than 3 are ever
\* recorded), and every further call raises and leaves tries_used unchanged,
\* also when two calls interleave between reading the record and committing.
C27_DemoLimitEnforced ==
    /\ []TriesWithinLimit
    /\ [][EachSuccessCounted]_vars

---------------------------------------------------------------------------
(* C24 *)

\* C24: a booking whose status is no_show is immutable: no cancel_appointment
\* and no reschedule applied to it changes its status or its
\* appointment_datetime.
C24_NoShowImmutable ==
    [][\A b \in DOMAIN bookings :
            bookings[b].status = "no_show" => bookings'[b] = bookings[b]]_vars

---------------------------------------------------------------------------
(* C28 *)

\* C28: suggest_alternative_slots never returns the same instant twice; when
\* the requested instant is available and fewer than 3 alternatives are found,
\* the padding from the free slots of the requested day does not add the
\* requested instant a second time.
C28_NoInstantTwice ==
    \A r \in SuggestRequests, n \in DaysAhead :
        LET alternatives == suggest_alternative_slots(bookings, r, n)
        IN  \A j, k \in DOMAIN alternatives :
                j # k => instant(alternatives[j]) # instant(alternatives[k])

---------------------------------------------------------------------------
(* C29 *)

\* The start is on Monday to Friday, at a local time of day from business_start
\* up to, not including, business_end.
InBusinessWeek(t) ==
    /\ (t \div MinutesPerDay) % 7 < 5
    /\ service.business_start <= t % MinutesPerDay
    /\ t % MinutesPerDay < service.business_end

ConfirmedInBusinessWeek ==
    \A i \in ConfirmedRows(bookings) : InBusinessWeek(bookings[i].appointment_datetime)

\* A row that is confirmed after a step is a row this step created or a row
\* that was confirmed before and has not moved.
ConfirmedOnlyAtCreation ==
    \A i \in ConfirmedRows(bookings') : i \in DOMAIN bookings => bookings'[i] = bookings[i]

\* C29: in every ledger reachable from the empty one through create,
\* reschedule and cancel, every confirmed booking starts on Monday to Friday at
\* a local time in [business_start, business_end): confirmed is assigned only at
\* creation, and no operation moves a booking that stays confirmed or sets an
\* existing booking back to confirmed.
C29_ConfirmedWithinHours ==
    /\ []ConfirmedInBusinessWeek
    /\ [][ConfirmedOnlyAtCreation]_vars

\* A confirmed booking stands beside one that a reschedule has moved.
C29_Witness ==
    /\ ConfirmedRows(bookings) # {}
    /\ \E i \in DOMAIN bookings : bookings[i].status = "rescheduled"
    /\ resp.op \in ReschedulePending
    /\ resp.detail = "success"

---------------------------------------------------------------------------
(* C30 *)

\* Request times whose interval overlaps that of confirmed booking b and of no
\* other confirmed booking.
OverlapsOnlyOwn(b, t) ==
    /\ Overlap(t, bookings[b].appointment_datetime)
    /\ \A i \in ConfirmedRows(bookings) \ {b} : ~Overlap(t, bookings[i].appointment_datetime)

\* C30: rescheduling a confirmed booking to a time whose interval overlaps only
\* that booking's own interval (the same time, or 15 minutes later with 30-minute
\* slots) is rejected as not available, the check not leaving out the booking
\* being moved; the booking is left unchanged.
C30_OwnIntervalRejected ==
    /\ [](\A b \in ConfirmedRows(bookings), s \in TimeStrings :
            fromisoformat_ok(s) /\ OverlapsOnlyOwn(b, instant(fromisoformat(s)))
                => ~check_availability(bookings, fromisoformat(s), None))
    /\ [][/\ \A p \in Callers :
                pc[p] = "idle" /\ pc'[p] \in ReschedulePending
                    => LET b == req'[p].booking_id
                       IN  bookings[b].status = "confirmed"
                             => ~OverlapsOnlyOwn(b, instant(req'[p].new_dt))
          /\ resp'.op \in ReschedulePending /\ resp'.detail \in Unavailable
                => bookings' = bookings]_vars

\* The only booking of the ledger is confirmed for Wednesday 10:00, the
\* requests for 10:00 and 10:15 overlap it alone, and a reschedule has just
\* been turned down as not available.
C30_Witness ==
    /\ Len(bookings) = 1
    /\ bookings[1] = [appointment_datetime |-> At(9, 10, 0), status |-> "confirmed"]
    /\ OverlapsOnlyOwn(1, At(9, 10, 15))
    /\ resp.op \in ReschedulePending
    /\ resp.detail \in Unavailable

---------------------------------------------------------------------------
(* C25 *)

\* The moments the second of two successive calls is made at, the first one
\* being made on Thursday at 08:00: at once, on Thursday at 23:59 and, two
\* minutes later, on Friday at 00:01.
CallTimes == Nows \cup {naive(At(10, 23, 59)), naive(At(11, 0, 1))}

\* What a call made at the moment now returns.
AnswerAt(up, d, n, h, now) == suggest_optimal_slots(bookings, up[1], d, n, now, h, up[2])

====
